---- MODULE Spec2Model ----
(***************************************************************************)
(* State-machine model of run_prog.py: the module-level configuration and  *)
(* artifact discovery, the five-step programming sequence                  *)
(* (program_device), get_device_info, and the diagnostics menu loop with   *)
(* its four operations.                                                    *)
(*                                                                         *)
(* Text is modelled as a sequence of tokens (a token is a TLA+ string); a  *)
(* printed line is a sequence of fragments, a fragment being a literal     *)
(* piece of text or a formatted number.  Random draws, the files on disk,  *)
(* the output of the external tool and the lines typed by the user are     *)
(* inputs chosen with \E.                                                  *)
(*                                                                         *)
(* run_prog.py uses glob.glob at line 35 and never imports glob (lines     *)
(* 1-5).  Run as it stands, the script dies there with a NameError.  The   *)
(* variable globBound says whether the name resolves (it does only where   *)
(* the embedding interpreter provides it); with globBound false the model  *)
(* is the script as written, with globBound true it is the rest of the     *)
(* program: program_device, get_device_info and the menu loop.             *)
(*                                                                         *)
(* Floating point: read_temp computes 62.5 + jitter * 0.01 in doubles and  *)
(* prints it with two decimals.  The model keeps temperatures in           *)
(* hundredths of a degree; for every jitter of the program's ranges the    *)
(* printed value is exactly nominal + jitter hundredths.                   *)
(***************************************************************************)
EXTENDS Integers, Sequences, FiniteSets, TLC

\* ------------------------------------------------------------------ bounds
MaxCfgLines == 2      \* lines in prog_config.txt
MaxCmds == 2          \* diagnostic commands dispatched in one run

\* ------------------------------------------------------- program constants
ADC_FPGA_NOMINAL == 16000     \* 0x3E80
ADC_HBM_NOMINAL == 15200      \* 0x3B60
FPGA_JITTER == 16
HBM_JITTER == 8
TEMP_FPGA_NOMINAL == 6250     \* 62.5 C, in hundredths of a degree
TEMP_HBM_NOMINAL == 5820      \* 58.2 C, in hundredths of a degree
PCIE_PAYLOAD_LEN == 256
PCIE_PROGRESS_STEPS == 11
SEND_BUF_LEN == 4096
LATENCY_NOMINAL == 150
LATENCY_JITTER == 10
HBM_DUMP_LEN == 4

\* --------------------------------------------------------------- text
Text(s) == [t |-> s, n |-> 0]
Num(fmt, v) == [t |-> fmt, n |-> v]
Texts(toks) == [i \in DOMAIN toks |-> Text(toks[i])]

Contains(s, tok) == \E i \in DOMAIN s : s[i] = tok

RECURSIVE LStrip(_)
LStrip(s) == IF s # <<>> /\ s[1] = " " THEN LStrip(Tail(s)) ELSE s

RECURSIVE RStrip(_)
RStrip(s) == IF s # <<>> /\ s[Len(s)] = " " THEN RStrip(SubSeq(s, 1, Len(s) - 1)) ELSE s

Strip(s) == RStrip(LStrip(s))

FirstIndex(s, tok) == CHOOSE i \in DOMAIN s : s[i] = tok /\ \A j \in 1..(i - 1) : s[j] # tok

LastIndex(s, tok) == CHOOSE i \in DOMAIN s : s[i] = tok /\ \A j \in (i + 1)..Len(s) : s[j] # tok

\* str.split(sep, 1) on a string that holds sep
SplitOnce(s, tok) == <<SubSeq(s, 1, FirstIndex(s, tok) - 1), SubSeq(s, FirstIndex(s, tok) + 1, Len(s))>>

\* str.split(sep)[-1]
LastField(s, tok) == IF Contains(s, tok) THEN SubSeq(s, LastIndex(s, tok) + 1, Len(s)) ELSE s

LowerChar(c) == IF c = "Q" THEN "q" ELSE c

Lower(s) == [i \in DOMAIN s |-> LowerChar(s[i])]

SeqsUpTo(S, n) == UNION {[1..k -> S] : k \in 0..n}

\* --------------------------------------------------------------- inputs
None == <<"<None>">>
NoFile == [stem |-> "", ext |-> ""]
DEFAULT_DEVICE == <<"xilinx_u50_gen3x16_xdma_201920_3">>
DEFAULT_SERIAL == <<"21340D8XYZ123">>
OTHER_DEVICE == <<"xilinx_u280_xdma_201920_3">>

CfgLineSamples ==
    { <<"#", " ", "card">>,
      <<"TARGET_DEVICE", "=", "xilinx_u50_gen3x16_xdma_201920_3">>,
      <<" ", "TARGET_DEVICE", " ", "=", " ", "xilinx_u280_xdma_201920_3", " ">>,
      <<"TARGET_DEVICE", "=", " ">> }

BitDirFiles ==
    { [stem |-> "old", ext |-> "bit", mtime |-> 1],
      [stem |-> "new", ext |-> "bit", mtime |-> 2],
      [stem |-> "notes", ext |-> "txt", mtime |-> 3] }

\* directory listings: empty, or a stray text file next to any set of .bit files
BitDirSamples == {{}} \cup {d \in SUBSET BitDirFiles : \E f \in d : f.ext = "txt"}

XbutilFailure == [ok |-> FALSE, stdout |-> <<>>]

XbutilResults ==
    { XbutilFailure,
      [ok |-> TRUE, stdout |-> <<>>],
      [ok |-> TRUE, stdout |-> << <<"Device", ":", "0000", ":", "xilinx_u280_xdma_201920_3", " ">>,
                                  <<"S/N", ":", " ", "SN42">> >>] }

InputLines ==
    { <<>>, <<"1">>, <<"2">>, <<"3">>, <<"4">>, <<"q">>, <<"Q">>, <<"x">>,
      <<"1", "1">>, <<"q", " ">>, <<" ", "3">> }

VARIABLES
    pc,             \* position of the process
    exitCode,       \* process exit status
    cfgExists,      \* os.path.exists(CONFIG_FILE)
    cfgLines,       \* lines of prog_config.txt not yet read
    globBound,      \* whether the name glob resolves when line 35 runs
    bitDir,         \* files in ./bit_file
    config,         \* the parsed key/value dictionary
    TARGET_DEVICE,
    BITSTREAM_FILE,
    simLog,         \* calls of simulate_xilinx_command so far: [step, ok]
    devinfo,
    choice,         \* line returned by main_menu
    prevInvalid,    \* history: the command line before this one was unrecognized
    calls,          \* diagnostic operations invoked so far
    out             \* lines printed by the most recent step

vars == <<pc, exitCode, cfgExists, cfgLines, globBound, bitDir, config, TARGET_DEVICE,
          BITSTREAM_FILE, simLog, devinfo, choice, prevInvalid, calls, out>>

NoDevinfo == [device |-> None, firmware |-> None, connection |-> None, serial |-> None]
EmptyDict == [k \in {} |-> <<>>]

Init ==
    /\ pc = "CheckConfig"
    /\ exitCode = 0
    /\ cfgExists \in BOOLEAN
    /\ cfgLines \in (IF cfgExists THEN SeqsUpTo(CfgLineSamples, MaxCfgLines) ELSE {<<>>})
    /\ globBound \in BOOLEAN
    /\ bitDir \in BitDirSamples
    /\ config = EmptyDict
    /\ TARGET_DEVICE = None
    /\ BITSTREAM_FILE = NoFile
    /\ simLog = <<>>
    /\ devinfo = NoDevinfo
    /\ choice = None
    /\ prevInvalid = FALSE
    /\ calls = <<>>
    /\ out = <<>>

\* ------------------------------------------------------------ termination
\* sys.exit(<message or 1>) and an uncaught exception both end the process with status 1
Abort(lines) ==
    /\ pc' = "Aborted"
    /\ exitCode' = 1
    /\ out' = lines

Running == pc \notin {"Terminal", "Aborted"}

\* ------------------------------------------------- module-level statements
CheckConfig ==
    /\ pc = "CheckConfig"
    /\ IF ~cfgExists
         THEN Abort(<< <<Text("Error: Missing prog_config.txt. Please create it in the project root.")>> >>)
         ELSE pc' = "ParseConfig" /\ UNCHANGED <<exitCode, out>>
    /\ UNCHANGED <<cfgExists, cfgLines, globBound, bitDir, config, TARGET_DEVICE,
                   BITSTREAM_FILE, simLog, devinfo, choice, prevInvalid, calls>>

DictSet(d, k, v) == [x \in (DOMAIN d) \cup {k} |-> IF x = k THEN v ELSE d[x]]

DictGet(d, k, default) == IF k \in DOMAIN d THEN d[k] ELSE default

ParseLine(d, line) ==
    IF Contains(line, "=")
      THEN LET kv == SplitOnce(Strip(line), "=") IN DictSet(d, Strip(kv[1]), Strip(kv[2]))
      ELSE d

RECURSIVE ParseLines(_, _)
ParseLines(lines, d) ==
    IF lines = <<>> THEN d ELSE ParseLines(Tail(lines), ParseLine(d, Head(lines)))

\* "not x" for a string or None
Falsy(x) == x = None \/ x = <<>>

ParseConfig ==
    /\ pc = "ParseConfig"
    /\ config' = ParseLines(cfgLines, config)
    /\ cfgLines' = <<>>
    /\ LET target == DictGet(config', <<"TARGET_DEVICE">>, None) IN
         /\ TARGET_DEVICE' = target
         /\ IF Falsy(target)
              THEN Abort(<< <<Text("Error: TARGET_DEVICE not defined in prog_config.txt.")>> >>)
              ELSE pc' = "LocateBit" /\ UNCHANGED <<exitCode, out>>
    /\ UNCHANGED <<cfgExists, globBound, bitDir, BITSTREAM_FILE, simLog, devinfo, choice, prevInvalid, calls>>

\* glob.glob(os.path.join(BIT_DIR, "*.bit"))
GlobBit(dir) == {f \in dir : f.ext = "bit"}

\* sorted(..., key=os.path.getmtime)[-1]: a file of the greatest modification time
Latest(files) == {f \in files : \A g \in files : g.mtime <= f.mtime}

PathOf(f) == [stem |-> f.stem, ext |-> f.ext]

PathText(p) == <<Text("./bit_file/"), Text(p.stem), Text("."), Text(p.ext)>>

LocateBit ==
    /\ pc = "LocateBit"
    /\ IF ~globBound
         THEN /\ Abort(<< <<Text("NameError: name 'glob' is not defined")>> >>)
              /\ UNCHANGED BITSTREAM_FILE
         ELSE IF GlobBit(bitDir) = {}
                THEN /\ Abort(<< <<Text("Error: No .bit file found in ./bit_file/ directory.")>> >>)
                     /\ UNCHANGED BITSTREAM_FILE
                ELSE /\ \E f \in Latest(GlobBit(bitDir)) : BITSTREAM_FILE' = PathOf(f)
                     /\ pc' = "Step1"
                     /\ UNCHANGED <<exitCode, out>>
    /\ UNCHANGED <<cfgExists, cfgLines, globBound, bitDir, config, TARGET_DEVICE,
                   simLog, devinfo, choice, prevInvalid, calls>>

\* the file system changes under the program: the located bitstream is removed
RemoveBitstream ==
    /\ Running
    /\ BITSTREAM_FILE # NoFile
    /\ \E f \in bitDir : PathOf(f) = BITSTREAM_FILE
    /\ bitDir' = {f \in bitDir : PathOf(f) # BITSTREAM_FILE}
    /\ UNCHANGED <<pc, exitCode, cfgExists, cfgLines, globBound, config, TARGET_DEVICE,
                   BITSTREAM_FILE, simLog, devinfo, choice, prevInvalid, calls, out>>

\* ------------------------------------------------------- program_device
simulate_xilinx_command(command, success_msg, error_msg, coin) ==
    [ok |-> coin,
     lines |-> << <<Text("[SIM] ")>> \o command,
                  IF coin THEN <<Text("[SUCCESS] "), Text(success_msg)>>
                          ELSE <<Text("[ERROR] "), Text(error_msg)>> >>]

InitCommand == <<Text("xbflash --device ")>> \o Texts(TARGET_DEVICE) \o <<Text(" --init")>>

StepCommand(k) ==
    CASE k = 1 -> InitCommand
      [] k = 2 -> <<Text("xbtutil --validate --bitstream ")>> \o PathText(BITSTREAM_FILE)
      [] k = 3 -> InitCommand
      [] k = 4 -> <<Text("xbflash --program --bitstream ")>> \o PathText(BITSTREAM_FILE)
                    \o <<Text(" --device ")>> \o Texts(TARGET_DEVICE)
      [] k = 5 -> <<Text("xbtutil --verify --bitstream ")>> \o PathText(BITSTREAM_FILE)

StepSuccessMsg(k) ==
    CASE k = 1 -> "Device initialized successfully."
      [] k = 2 -> "Bitstream integrity check passed."
      [] k = 3 -> "Device initialized successfully."
      [] k = 4 -> "Programming command sent to hardware."
      [] k = 5 -> "Verification successful. Device configured."

StepErrorMsg(k) ==
    CASE k = 1 -> "Initialization failed. Check JTAG connection."
      [] k = 2 -> "Validation failed. Check bitstream syntax."
      [] k = 3 -> "Initialization failed. Check JTAG connection."
      [] k = 4 -> "Programming failed. Verify device ID."
      [] k = 5 -> "Verification failed. Re-run programming."

StepBanner(k) ==
    CASE k = 1 -> <<Text("[STEP 1/5] Verifying XRT environment...")>>
      [] k = 2 -> <<Text("[STEP 2/5] Verifying build output directory '{OUTPUT_DIR}'...")>>
      [] k = 3 -> <<Text("[STEP 3/5] Initializing device with xbflash...")>>
      [] k = 4 -> <<Text("[STEP 4/5] Programming bitstream to Alveo U50...")>>
      [] k = 5 -> <<Text("[STEP 5/5] Verifying programming with xbtutil...")>>

CompletedLine == <<Text("  Programming Completed Successfully.")>>

\* mutant: the outcome of the simulated command is ignored
RunStep_NoExit(k, okTail, failTail, next) ==
    \E coin \in BOOLEAN :
        LET r == simulate_xilinx_command(StepCommand(k), StepSuccessMsg(k), StepErrorMsg(k), coin) IN
          /\ simLog' = Append(simLog, [step |-> k, ok |-> r.ok])
          /\ pc' = next
          /\ out' = <<StepBanner(k)>> \o r.lines \o okTail
          /\ UNCHANGED exitCode

\* one "if not simulate_xilinx_command(...): sys.exit(1)" block
RunStep(k, okTail, failTail, next) ==
    \E coin \in BOOLEAN :
        LET r == simulate_xilinx_command(StepCommand(k), StepSuccessMsg(k), StepErrorMsg(k), coin) IN
          /\ simLog' = Append(simLog, [step |-> k, ok |-> r.ok])
          /\ IF ~r.ok
               THEN Abort(<<StepBanner(k)>> \o r.lines \o failTail)
               ELSE /\ pc' = next
                    /\ out' = <<StepBanner(k)>> \o r.lines \o okTail
                    /\ UNCHANGED exitCode

StepFrame == UNCHANGED <<cfgExists, cfgLines, globBound, bitDir, config, TARGET_DEVICE,
                         BITSTREAM_FILE, devinfo, choice, prevInvalid, calls>>

Step1 ==
    /\ pc = "Step1"
    /\ RunStep(1, <<>>, <<>>, "Step2")
    /\ StepFrame

\* mutant: the bitstream is not looked for
BitstreamExists_Unchecked == TRUE

\* os.path.exists(BITSTREAM_FILE)
BitstreamExists == \E f \in bitDir : PathOf(f) = BITSTREAM_FILE

Step2 ==
    /\ pc = "Step2"
    /\ IF ~BitstreamExists
         THEN /\ Abort(<<StepBanner(2),
                         <<Text("[ERROR] Bitstream '")>> \o PathText(BITSTREAM_FILE)
                            \o <<Text("' not found. Generate with Vivado first.")>> >>)
              /\ UNCHANGED simLog
         ELSE RunStep(2, <<>>, <<>>, "Step3")
    /\ StepFrame

Step3 ==
    /\ pc = "Step3"
    /\ RunStep(3, <<>>, <<>>, "Step4")
    /\ StepFrame

Step4 ==
    /\ pc = "Step4"
    /\ RunStep(4, <<>>, <<>>, "Step5")
    /\ StepFrame

Step5 ==
    /\ pc = "Step5"
    /\ RunStep(5, <<CompletedLine>>, << <<Text("[ERROR] Programming verification failed.")>> >>,
               "GetDeviceInfo")
    /\ StepFrame

\* ------------------------------------------------------- get_device_info
HasLineWith(lines, tok) == \E i \in DOMAIN lines : Contains(lines[i], tok)

\* next((l for l in lines if tok in l), None), for lines that hold one
FirstLineWith(lines, tok) ==
    lines[CHOOSE i \in DOMAIN lines :
            Contains(lines[i], tok) /\ \A j \in 1..(i - 1) : ~Contains(lines[j], tok)]

FallbackInfo ==
    [device |-> DEFAULT_DEVICE, firmware |-> <<"alveo_u50_top.bit">>,
     connection |-> <<"JTAG-over-PCIe">>, serial |-> DEFAULT_SERIAL]

get_device_info(result) ==
    IF ~result.ok
      THEN FallbackInfo
      ELSE [device |-> IF HasLineWith(result.stdout, "Device")
                         THEN Strip(LastField(FirstLineWith(result.stdout, "Device"), ":"))
                         ELSE DEFAULT_DEVICE,
            firmware |-> <<"alveo_u50_top.bit">>,
            connection |-> <<"JTAG-over-PCIe">>,
            serial |-> IF HasLineWith(result.stdout, "S/N")
                         THEN Strip(LastField(FirstLineWith(result.stdout, "S/N"), ":"))
                         ELSE DEFAULT_SERIAL]

GetDeviceInfo ==
    /\ pc = "GetDeviceInfo"
    /\ \E result \in XbutilResults : devinfo' = get_device_info(result)
    /\ pc' = "Idle"
    /\ out' = <<>>
    /\ UNCHANGED <<exitCode, cfgExists, cfgLines, globBound, bitDir, config, TARGET_DEVICE,
                   BITSTREAM_FILE, simLog, choice, prevInvalid, calls>>

\* ------------------------------------------------------------- menu loop
print_header(d) ==
    << <<Text("=========================================================")>>,
       <<Text("==        Alveo U50 Live Diagnostics Interface         ==")>>,
       <<Text("=========================================================")>>,
       <<Text("Target Device: ")>> \o Texts(d.device),
       <<Text("Firmware:      ")>> \o Texts(d.firmware),
       <<Text("Connection:    ")>> \o Texts(d.connection),
       <<Text("Serial No.:    ")>> \o Texts(d.serial) >>

MenuLines ==
    << <<Text("Select a diagnostic command:")>>,
       <<Text("  [1] Check HBM (High Bandwidth Memory) Status")>>,
       <<Text("  [2] Run PCIe Link Self-Test")>>,
       <<Text("  [3] Read On-Chip Temperature Sensors")>>,
       <<Text("  [4] Send test data to processing kernel")>>,
       <<Text("  [q] Quit")>>,
       <<Text(">> ")>> >>

AckPrompt == <<Text("Press [Enter] to return to the menu...")>>

MenuFrame == UNCHANGED <<cfgExists, cfgLines, globBound, bitDir, config, TARGET_DEVICE,
                         BITSTREAM_FILE, simLog>>

\* mutant: the device is queried again on every redraw
Redraw_Requery ==
    /\ pc = "Idle"
    /\ \E result \in XbutilResults :
         /\ devinfo' = get_device_info(result)
         /\ out' = print_header(devinfo') \o MenuLines
    /\ pc' = "AwaitingInput"
    /\ UNCHANGED <<exitCode, choice, prevInvalid, calls>>
    /\ MenuFrame

\* clear_screen(); print_header(devinfo); main_menu() up to its input()
Redraw ==
    /\ pc = "Idle"
    /\ out' = print_header(devinfo) \o MenuLines
    /\ pc' = "AwaitingInput"
    /\ UNCHANGED <<exitCode, devinfo, choice, prevInvalid, calls>>
    /\ MenuFrame

\* mutant: the commands are matched on the first character of the line
Branch_StartsWith(c) ==
    IF c # <<>> /\ c[1] = "1" THEN "check_hbm_status"
    ELSE IF c # <<>> /\ c[1] = "2" THEN "run_pcie_test"
    ELSE IF c # <<>> /\ c[1] = "3" THEN "read_temp"
    ELSE IF c # <<>> /\ c[1] = "4" THEN "send_data"
    ELSE IF Lower(c) = <<"q">> THEN "quit"
    ELSE "invalid"

\* mutant: the quit character is compared without lower()
Branch_CaseSensitive(c) ==
    IF c = <<"1">> THEN "check_hbm_status"
    ELSE IF c = <<"2">> THEN "run_pcie_test"
    ELSE IF c = <<"3">> THEN "read_temp"
    ELSE IF c = <<"4">> THEN "send_data"
    ELSE IF c = <<"q">> THEN "quit"
    ELSE "invalid"

\* the if/elif chain on choice
Branch(c) ==
    IF c = <<"1">> THEN "check_hbm_status"
    ELSE IF c = <<"2">> THEN "run_pcie_test"
    ELSE IF c = <<"3">> THEN "read_temp"
    ELSE IF c = <<"4">> THEN "send_data"
    ELSE IF Lower(c) = <<"q">> THEN "quit"
    ELSE "invalid"

Operations == {"check_hbm_status", "run_pcie_test", "read_temp", "send_data"}

\* main_menu() returns the line; quit and invalid input are handled at once,
\* a recognized command moves on to its operation
ReadCommand ==
    /\ pc = "AwaitingInput"
    /\ \E line \in InputLines :
         /\ choice' = line
         /\ prevInvalid' = (choice # None /\ Branch(choice) = "invalid")
         /\ CASE Branch(line) = "quit" ->
                   /\ out' = << <<Text("Disconnecting from device...")>> >>
                   /\ pc' = "Terminal"
              [] Branch(line) = "invalid" ->
                   /\ out' = << <<Text("Invalid option.")>>, AckPrompt >>
                   /\ pc' = "AwaitAck"
              [] OTHER ->
                   /\ Len(calls) < MaxCmds
                   /\ out' = <<>>
                   /\ pc' = "Dispatching"
    /\ UNCHANGED <<exitCode, devinfo, calls>>
    /\ MenuFrame

\* input() at end of input: EOFError, uncaught
EndOfInput ==
    /\ pc \in {"AwaitingInput", "AwaitAck"}
    /\ Abort(<< <<Text("EOFError: EOF when reading a line")>> >>)
    /\ UNCHANGED <<devinfo, choice, prevInvalid, calls>>
    /\ MenuFrame

\* input("Press [Enter] ..."): the line is discarded
ReadAck ==
    /\ pc = "AwaitAck"
    /\ pc' = "Idle"
    /\ out' = <<>>
    /\ UNCHANGED <<exitCode, devinfo, choice, prevInvalid, calls>>
    /\ MenuFrame

\* mutant: the loop goes on without asking for the acknowledgement
OperationDone_NoAck(name, lines) ==
    /\ calls' = Append(calls, name)
    /\ out' = lines
    /\ pc' = "Idle"
    /\ UNCHANGED <<exitCode, devinfo, choice, prevInvalid>>
    /\ MenuFrame

\* an operation returns; the loop then prints the acknowledgement prompt
OperationDone(name, lines) ==
    /\ calls' = Append(calls, name)
    /\ out' = lines \o <<AckPrompt>>
    /\ pc' = "AwaitAck"
    /\ UNCHANGED <<exitCode, devinfo, choice, prevInvalid>>
    /\ MenuFrame

\* ------------------------------------------------------------ operations
Pow2(i) == CASE i = 0 -> 1 [] i = 1 -> 2 [] i = 2 -> 4 [] i = 3 -> 8

Mask16(v) == v % 65536

\* mutant: the status text is printed for a calibrated memory only
check_hbm_status_NoIdleText(raw_status) ==
    LET reg_dump == [i \in 1..HBM_DUMP_LEN |-> Num("hex", Mask16(raw_status * Pow2(i - 1)))]
        calibrated == raw_status % 2 = 1
    IN  << <<Text("[CMD] Querying HBM Controller (AXI Addr: 0x10000)...")>>,
           <<Text("[AXI-RD] Register dump: ")>> \o reg_dump,
           <<Text("[RECV] HBM Status Register: 0x"), Num("04X", raw_status), Text(" (")>>
              \o (IF calibrated THEN <<Text("Calibrated"), Text(", "), Text("OK")>> ELSE <<>>)
              \o <<Text(")")>>,
           IF calibrated THEN <<Text("[INFO] HBM Memory appears to be stable.")>>
                         ELSE <<Text("[WARN] HBM not initialized!")>> >>

check_hbm_status(raw_status) ==
    LET reg_dump == [i \in 1..HBM_DUMP_LEN |-> Num("hex", Mask16(raw_status * Pow2(i - 1)))]
        calibrated == raw_status % 2 = 1
    IN  << <<Text("[CMD] Querying HBM Controller (AXI Addr: 0x10000)...")>>,
           <<Text("[AXI-RD] Register dump: ")>> \o reg_dump,
           <<Text("[RECV] HBM Status Register: 0x"), Num("04X", raw_status), Text(" (")>>
              \o (IF calibrated THEN <<Text("Calibrated"), Text(", "), Text("OK")>>
                                ELSE <<Text("Idle")>>)
              \o <<Text(")")>>,
           IF calibrated THEN <<Text("[INFO] HBM Memory appears to be stable.")>>
                         ELSE <<Text("[WARN] HBM not initialized!")>> >>

CheckHbmStatus ==
    /\ pc = "Dispatching"
    /\ Branch(choice) = "check_hbm_status"
    /\ \E raw_status \in {1, 0} : OperationDone("check_hbm_status", check_hbm_status(raw_status))

\* sum(): the additions are associative, so the range is halved to keep the depth small
RECURSIVE SumRange(_, _, _)
SumRange(s, lo, hi) ==
    IF lo > hi THEN 0
    ELSE IF lo = hi THEN s[lo]
    ELSE SumRange(s, lo, (lo + hi) \div 2) + SumRange(s, ((lo + hi) \div 2) + 1, hi)

Sum(s) == SumRange(s, 1, Len(s))

\* mutant: the copy loses the last byte
Bytes_Truncated(payload) == [i \in 1..(Len(payload) - 1) |-> payload[i]]

\* bytes(payload): an immutable copy, byte for byte
Bytes(payload) == [i \in DOMAIN payload |-> payload[i]]

Fill(len, first, rest, k) == [i \in 1..len |-> IF i <= k THEN first ELSE rest]

PayloadSamples == {Fill(PCIE_PAYLOAD_LEN, a, b, k) : a \in {0, 173, 255}, b \in {0, 255}, k \in {1, 100}}

run_pcie_test(payload) ==
    LET checksum_tx == Mask16(Sum(payload))
        payload_rx == Bytes(payload)
        checksum_rx == Mask16(Sum(payload_rx))
    IN  << <<Text("[CMD] Initiating PCIe Gen3 x16 loopback test...")>>,
           <<Text("[INFO] Sending 1MB test payload...")>>,
           [i \in 1..PCIE_PROGRESS_STEPS |-> Num("[INFO] Progress: %", (i - 1) * 10)],
           <<Text("[INFO] Payload received, verifying...")>>,
           IF checksum_tx = checksum_rx
             THEN <<Text("[RECV] PCIe Link Test: "), Text("PASS"), Text(" (Integrity "), Text("OK"),
                    Text(", checksum=0x"), Num("04X", checksum_rx), Text(")")>>
             ELSE <<Text("["), Text("FAIL"), Text("] Data mismatch detected in loopback test.")>> >>

RunPcieTest ==
    /\ pc = "Dispatching"
    /\ Branch(choice) = "run_pcie_test"
    /\ \E payload \in PayloadSamples : OperationDone("run_pcie_test", run_pcie_test(payload))

\* temperatures in hundredths of a degree: one ADC code is 0.01 C
ADC_SCALE == 1

\* mutant: one ADC code taken as 0.1 C
TempOf_TenthPerCode(nominal_temp, adc, nominal_adc) == nominal_temp + (adc - nominal_adc) * 10

TempOf(nominal_temp, adc, nominal_adc) == nominal_temp + (adc - nominal_adc) * ADC_SCALE

read_temp(jitter_fpga, jitter_hbm) ==
    LET adc_fpga == ADC_FPGA_NOMINAL + jitter_fpga
        adc_hbm == ADC_HBM_NOMINAL + jitter_hbm
        temp_fpga == TempOf(TEMP_FPGA_NOMINAL, adc_fpga, ADC_FPGA_NOMINAL)
        temp_hbm == TempOf(TEMP_HBM_NOMINAL, adc_hbm, ADC_HBM_NOMINAL)
    IN  << <<Text("[CMD] Reading thermal sensor array...")>>,
           <<Text("[AXI-RD] FPGA ADC raw = 0x"), Num("X", adc_fpga)>>,
           <<Text("[AXI-RD] HBM  ADC raw = 0x"), Num("X", adc_hbm)>>,
           <<Text("[RECV] FPGA Die Temperature: "), Num(".2f", temp_fpga), Text(" C")>>,
           <<Text("[RECV] HBM Stack Temperature: "), Num(".2f", temp_hbm), Text(" C")>> >>

ReadTemp ==
    /\ pc = "Dispatching"
    /\ Branch(choice) = "read_temp"
    /\ \E jitter_fpga \in (0 - FPGA_JITTER)..FPGA_JITTER, jitter_hbm \in (0 - HBM_JITTER)..HBM_JITTER :
         OperationDone("read_temp", read_temp(jitter_fpga, jitter_hbm))

\* & 0xFFFFFFFF: a sum of SEND_BUF_LEN bytes is below 2^32, so the mask keeps it
Mask32(v) == v

BufSamples == {Fill(SEND_BUF_LEN, a, b, 1) : a \in {0, 255}, b \in {255}}

\* the checksum of the buffer
BufChecksum(buf) == Mask32(Sum(buf))

\* the two lines send_data prints
send_data(checksum, latency) ==
    << <<Text("[CMD] Allocating buffer and sending 4KB data to Kernel_0...")>>,
       <<Text("[INFO] Data transfer complete. Buffer checksum=0x"), Num("08X", checksum)>>,
       <<Text("[RECV] Kernel_0 returned status "), Text("OK"), Text(". Latency: "),
         Num("d", latency), Text(" us.")>> >>

\* the checksums of the sample buffers, computed once
BufChecksumSamples == {BufChecksum(buf) : buf \in BufSamples}

SendData ==
    /\ pc = "Dispatching"
    /\ Branch(choice) = "send_data"
    /\ \E checksum \in BufChecksumSamples, jitter \in (0 - LATENCY_JITTER)..LATENCY_JITTER :
         OperationDone("send_data", send_data(checksum, LATENCY_NOMINAL + jitter))

Next ==
    \/ CheckConfig
    \/ ParseConfig
    \/ LocateBit
    \/ RemoveBitstream
    \/ Step1
    \/ Step2
    \/ Step3
    \/ Step4
    \/ Step5
    \/ GetDeviceInfo
    \/ Redraw
    \/ ReadCommand
    \/ EndOfInput
    \/ ReadAck
    \/ CheckHbmStatus
    \/ RunPcieTest
    \/ ReadTemp
    \/ SendData

Spec == Init /\ [][Next]_vars

\* ===================================================================
\* Properties
\* ===================================================================
Last(q) == q[Len(q)]

StatusKeywords == {"PASS", "FAIL", "OK", "Calibrated", "Idle"}

LineHasKeyword(line) == \E i \in DOMAIN line : \E k \in StatusKeywords : line[i] = Text(k)

HasStatusLine(lines) == \E i \in DOMAIN lines : LineHasKeyword(lines[i])

\* a step of the program itself that leaves the position pc
Leaves(p) == pc = p /\ pc' # p

\* the process read a line at position p (it neither stayed nor died of end of input)
ReadsLineAt(p) == pc = p /\ pc' \notin {p, "Aborted"}

MenuPositions == {"Idle", "AwaitingInput", "Dispatching", "AwaitAck", "Terminal"}

\* ---- C1 -------------------------------------------------------------
\* C1 (startup short-circuit): the simulated commands run in the order 1, 2, ..., each at most once;
\* a step whose outcome is failure is the last one run, and the process has
\* then ended with exit status 1.
C1_ShortCircuit ==
    /\ Len(simLog) <= 5
    /\ \A i \in DOMAIN simLog : simLog[i].step = i
    /\ \A i \in DOMAIN simLog :
         ~simLog[i].ok => (i = Len(simLog) /\ pc = "Aborted" /\ exitCode = 1)
    /\ \A k \in 1..5 : pc = <<"Step1", "Step2", "Step3", "Step4", "Step5">>[k] => Len(simLog) = k - 1

C1_Witness == pc = "Aborted" /\ Len(simLog) = 3 /\ ~simLog[3].ok /\ simLog[1].ok /\ simLog[2].ok

\* ---- C2 -------------------------------------------------------------
C2_Recognized == {<<"1">>, <<"2">>, <<"3">>, <<"4">>, <<"q">>, <<"Q">>}

C2_OpOf(c) ==
    CASE c = <<"1">> -> "check_hbm_status"
      [] c = <<"2">> -> "run_pcie_test"
      [] c = <<"3">> -> "read_temp"
      [] c = <<"4">> -> "send_data"

C2_Step ==
    /\ (ReadsLineAt("AwaitingInput") /\ choice' \notin C2_Recognized)
         => /\ pc' = "AwaitAck"
            /\ out' = << <<Text("Invalid option.")>>, AckPrompt >>
            /\ calls' = calls
            /\ exitCode' = exitCode
            /\ devinfo' = devinfo
    /\ (ReadsLineAt("AwaitAck") /\ choice \notin C2_Recognized)
         => (pc' = "Idle" /\ calls' = calls)
    /\ (Leaves("Idle") /\ choice \notin C2_Recognized)
         => (pc' = "AwaitingInput" /\ calls' = calls /\ choice' = choice)
    /\ (ReadsLineAt("AwaitingInput") /\ choice \notin C2_Recognized /\ choice # None
          /\ choice' \in {<<"1">>, <<"2">>, <<"3">>, <<"4">>})
         => (pc' = "Dispatching" /\ prevInvalid')
    /\ (Leaves("Dispatching") /\ prevInvalid)
         => (pc' = "AwaitAck" /\ calls' = Append(calls, C2_OpOf(choice)))

\* C2: an unrecognized line prints the error, invokes no operation, does not
\* end the process and leads back to AwaitingInput; a command 1-4 read next
\* is dispatched to its operation.
C2_LoopResilience == [][C2_Step]_vars

C2_Witness ==
    /\ pc = "AwaitAck"
    /\ prevInvalid
    /\ choice = <<"3">>
    /\ calls = <<"read_temp">>

\* ---- C3 -------------------------------------------------------------
MissingBitstreamAbort ==
    /\ pc = "Aborted"
    /\ Len(out) = 2
    /\ out[2][1] = Text("[ERROR] Bitstream '")

\* C3, as stated: the missing bitstream is fatal before simulate_xilinx_command
\* has run for any step.
C3_Original == MissingBitstreamAbort => simLog = <<>>

C3_FileGone == ~(\E f \in bitDir : f.stem = BITSTREAM_FILE.stem /\ f.ext = BITSTREAM_FILE.ext)

\* C3 (amended): the bitstream is looked for in step 2.  If it is gone then,
\* the process ends with exit status 1 and the simulated command of step 2
\* (and of every later step) never runs; the simulated command of step 1 has
\* already run, and succeeded.
C3_MissingFatalInStep2 ==
    /\ [](MissingBitstreamAbort => (exitCode = 1 /\ simLog = <<[step |-> 1, ok |-> TRUE]>>))
    /\ [][(Leaves("Step2") /\ C3_FileGone)
            => (MissingBitstreamAbort' /\ exitCode' = 1 /\ simLog' = simLog)]_vars

C3_Witness == MissingBitstreamAbort /\ simLog = <<[step |-> 1, ok |-> TRUE]>>

\* ---- C4 -------------------------------------------------------------
C4_AfterOperation == pc = "AwaitAck" /\ choice \in {<<"1">>, <<"2">>, <<"3">>, <<"4">>}

\* C4, as stated: each of the four operations prints a line with a status keyword.
C4_Original == C4_AfterOperation => HasStatusLine(out)

\* C4 (amended): operations 1, 2 and 4 print a line with a status keyword;
\* operation 3 (read_temp) prints its two temperature lines and no status
\* keyword; a dispatched operation always returns to the acknowledgement
\* prompt, it never ends the process.
C4_StatusLines ==
    /\ [](C4_AfterOperation =>
            /\ Last(out) = AckPrompt
            /\ choice \in {<<"1">>, <<"2">>, <<"4">>} => HasStatusLine(out)
            /\ choice = <<"3">> =>
                 /\ ~HasStatusLine(out)
                 /\ out[4][1] = Text("[RECV] FPGA Die Temperature: ")
                 /\ out[5][1] = Text("[RECV] HBM Stack Temperature: "))
    /\ [][Leaves("Dispatching") => (pc' = "AwaitAck" /\ exitCode' = 0)]_vars

C4_Witness == C4_AfterOperation /\ choice = <<"3">> /\ ~HasStatusLine(out) /\ Len(calls) = 2

\* ---- C5 -------------------------------------------------------------
C5_AfterPcie == pc = "AwaitAck" /\ choice = <<"2">>

\* C5: the PCIe test reports PASS for every payload: the checksum of the
\* received copy equals that of the transmitted buffer, the mismatch line is
\* never printed.
C5_PcieAlwaysPass ==
    C5_AfterPcie =>
        /\ Len(out) = 6
        /\ out[5][2] = Text("PASS")
        /\ \A i \in DOMAIN out : \A j \in DOMAIN out[i] : out[i][j] # Text("FAIL")
        /\ out[5][6].n \in 0..65535

C5_Witness == C5_AfterPcie /\ out[5][2] = Text("PASS") /\ out[5][6].n = 173 + 255 * 255

\* ---- C6 -------------------------------------------------------------
C6_AfterTemp == pc = "AwaitAck" /\ choice = <<"3">>

\* C6: the FPGA temperature is 62.50 C plus the ADC jitter in hundredths, the
\* jitter being at most 16 codes (62.34 .. 62.66); the HBM temperature is
\* 58.20 C plus a jitter of at most 8 codes (58.12 .. 58.28).
C6_TemperatureBounds ==
    C6_AfterTemp =>
        LET adc_fpga == out[2][2].n
            adc_hbm == out[3][2].n
            temp_fpga == out[4][2].n
            temp_hbm == out[5][2].n
        IN  /\ adc_fpga - 16000 \in -16..16
            /\ adc_hbm - 15200 \in -8..8
            /\ temp_fpga = 6250 + (adc_fpga - 16000)
            /\ temp_hbm = 5820 + (adc_hbm - 15200)
            /\ temp_fpga \in 6234..6266
            /\ temp_hbm \in 5812..5828

C6_Witness == C6_AfterTemp /\ out[4][2].n = 6266 /\ out[5][2].n = 5812

\* ---- C7 -------------------------------------------------------------
C7_QuitLines == {<<"q">>, <<"Q">>}

\* C7: a line read at AwaitingInput ends the loop exactly when it is q or Q;
\* the loop then ends at once (no operation, no acknowledgement prompt) and
\* the exit status is 0.  Terminal is entered from AwaitingInput only.
C7_Quit ==
    /\ [](pc = "Terminal" => (exitCode = 0 /\ choice \in C7_QuitLines))
    /\ [][/\ ReadsLineAt("AwaitingInput") => (choice' \in C7_QuitLines <=> pc' = "Terminal")
          /\ (pc # "Terminal" /\ pc' = "Terminal")
               => /\ pc = "AwaitingInput"
                  /\ calls' = calls
                  /\ exitCode' = 0
                  /\ out' = << <<Text("Disconnecting from device...")>> >>
          /\ pc = "Terminal" => pc' = "Terminal"]_vars

C7_Witness == pc = "Terminal" /\ choice = <<"Q">> /\ exitCode = 0 /\ Len(calls) = 1

\* ---- C8 -------------------------------------------------------------
C8_Configured == TARGET_DEVICE # None /\ TARGET_DEVICE # <<>>

C8_ArtifactPresent == \E f \in bitDir : f.ext = "bit"

C8_AllStepsSucceeded == Len(simLog) = 5 /\ \A i \in DOMAIN simLog : simLog[i].ok

\* C8, as stated: with TARGET_DEVICE configured and a .bit file present the
\* startup steps run; when all five succeed the completion line is printed,
\* the menu is entered, and its header shows the configured device name.
C8_Original ==
    /\ (C8_Configured /\ C8_ArtifactPresent /\ simLog = <<>>) => pc # "Aborted"
    /\ (C8_AllStepsSucceeded /\ pc = "GetDeviceInfo") => Last(out) = CompletedLine
    /\ C8_AllStepsSucceeded => pc \in {"GetDeviceInfo"} \cup MenuPositions \cup {"Aborted"}
    /\ pc = "AwaitingInput" => out[4] = <<Text("Target Device: ")>> \o Texts(TARGET_DEVICE)

\* ---- C9 -------------------------------------------------------------
C9_Populated(d) ==
    /\ d.device \notin {None, <<>>}
    /\ d.serial \notin {None, <<>>}
    /\ d.firmware = <<"alveo_u50_top.bit">>
    /\ d.connection = <<"JTAG-over-PCIe">>

\* C9: devinfo is assigned once, between the startup sequence and the first
\* redraw; no menu step changes it, every redraw prints its four fields, and
\* an operation changes nothing but the list of calls and the output.
C9_DeviceInfoWriteOnce ==
    /\ [](pc \in MenuPositions => C9_Populated(devinfo))
    /\ [](pc \notin MenuPositions /\ pc # "Aborted" => devinfo = NoDevinfo)
    /\ [](pc = "AwaitingInput" =>
            /\ out[4] = <<Text("Target Device: ")>> \o Texts(devinfo.device)
            /\ out[5] = <<Text("Firmware:      ")>> \o Texts(devinfo.firmware)
            /\ out[6] = <<Text("Connection:    ")>> \o Texts(devinfo.connection)
            /\ out[7] = <<Text("Serial No.:    ")>> \o Texts(devinfo.serial))
    /\ [][/\ devinfo' # devinfo => (pc = "GetDeviceInfo" /\ pc' = "Idle" /\ devinfo = NoDevinfo)
          /\ Leaves("Dispatching") =>
               UNCHANGED <<devinfo, choice, exitCode, config, TARGET_DEVICE, BITSTREAM_FILE,
                           simLog, bitDir>>]_vars

C9_Witness ==
    /\ pc = "AwaitingInput"
    /\ Len(calls) = 2
    /\ prevInvalid
    /\ devinfo.device = OTHER_DEVICE
    /\ out[4] = <<Text("Target Device: ")>> \o Texts(OTHER_DEVICE)

\* ---- C10 ------------------------------------------------------------
C10_Commands == {<<"1">>, <<"2">>, <<"3">>, <<"4">>}

C10_OpOf(c) ==
    CASE c = <<"1">> -> "check_hbm_status"
      [] c = <<"2">> -> "run_pcie_test"
      [] c = <<"3">> -> "read_temp"
      [] c = <<"4">> -> "send_data"

C10_IsHeader(lines) == Len(lines) >= 1 /\ lines[1] = print_header(devinfo)[1]

\* C10: a command 1-4 read at AwaitingInput leads to Dispatching; there the
\* operation mapped to it is invoked, once, and the acknowledgement is asked
\* for; only after the acknowledgement line is read does the loop reach Idle,
\* and only from Idle is the header redrawn and the next command read.
C10_DispatchProtocol ==
    [][/\ (ReadsLineAt("AwaitingInput") /\ choice' \in C10_Commands)
            => (pc' = "Dispatching" /\ calls' = calls)
       /\ pc' = "Dispatching" => (pc \in {"AwaitingInput", "Dispatching"} /\ choice' \in C10_Commands)
       /\ Leaves("Dispatching")
            => /\ pc' = "AwaitAck"
               /\ choice' = choice
               /\ calls' = Append(calls, C10_OpOf(choice))
               /\ Last(out') = AckPrompt
       /\ calls' # calls => Leaves("Dispatching")
       /\ ReadsLineAt("AwaitAck") => (pc' = "Idle" /\ calls' = calls /\ choice' = choice)
       /\ Leaves("Idle") => (pc' = "AwaitingInput" /\ C10_IsHeader(out') /\ calls' = calls)
       /\ (pc' = "AwaitingInput" /\ pc # "AwaitingInput") => pc = "Idle"
       /\ (pc' = "Idle" /\ pc # "Idle") => pc \in {"AwaitAck", "GetDeviceInfo"}]_vars

C10_Witness ==
    /\ pc = "AwaitingInput"
    /\ calls = <<"send_data", "check_hbm_status">>
    /\ choice = <<"1">>

====
